---- MODULE Spec2Model ----
(***************************************************************************)
(* The E-Commerce REST API (wreckage0907/E-Commerce).  Two deployable       *)
(* variants of the server are in the repository: index.js (auth, swagger,   *)
(* customers, products, analytics) and the earlier server of                *)
(* unnamed/part_000 (customers, products, analytics, nearby).  Every route  *)
(* handler is an async function; between two awaits of one handler the      *)
(* handlers of other requests may run, so a handler is one action per       *)
(* awaited store call.                                                      *)
(***************************************************************************)
EXTENDS Integers, Sequences, FiniteSets, TLC

(* ------------------------------ bounds -------------------------------- *)

\* documents the database holds at most in the model
MaxDocs == 3

\* customer records stored when an analytics query runs, at most
MaxRecords == 2

(* ------------------------------ inputs -------------------------------- *)

Variants == {"index.js", "part_000"}

\* requests served concurrently (each has its own req/res pair)
Slots == {"r1", "r2"}

Names == {"a", "b"}

\* request bodies of POST /customers and POST /products: two entities of
\* one name that differ in another field, and an entity of another name
CustomerBodies ==
    { [name |-> "a", email |-> "e1"],
      [name |-> "a", email |-> "e2"],
      [name |-> "b", email |-> "e1"] }
ProductBodies ==
    { [name |-> "a", category |-> "c1"],
      [name |-> "a", category |-> "c2"],
      [name |-> "b", category |-> "c1"] }

\* request bodies of PUT /customers/:name and PUT /products/:name: one
\* names another field, one names the key field itself
CustomerUpdates == { [email |-> "e2"], [name |-> "b"] }
ProductUpdates == { [category |-> "c2"], [name |-> "b"] }

\* request bodies of POST /auth/signup and POST /auth/login
Credentials ==
    { [username |-> "u1", password |-> "pw1"],
      [username |-> "u1", password |-> "pw2"],
      [username |-> "u2", password |-> "pw1"] }

\* salts bcrypt.genSalt can draw
Salts == {"s1", "s2"}

\* embedded product-line arrays of stored customer records
Carts ==
    { << >>,
      << [name |-> "p1", quantity |-> 5], [name |-> "p2", quantity |-> 4],
         [name |-> "p3", quantity |-> 3] >>,
      << [name |-> "p1", quantity |-> 1], [name |-> "p4", quantity |-> 2],
         [name |-> "p5", quantity |-> 1], [name |-> "p6", quantity |-> 1] >>,
      << [name |-> "p2", quantity |-> 1], [name |-> "p2", quantity |-> 1] >>,
      << [name |-> "p3", quantity |-> 3], [name |-> "p4", quantity |-> 3] >>,
      << [name |-> "p6", quantity |-> 7] >> }

\* stored customer records: with a product-line array, or without the field
Records ==
    { [name |-> "a", products |-> cart] : cart \in Carts }
        \cup { [name |-> "a", email |-> "e1"] }

RECURSIVE SeqsUpTo(_, _)
\* the sequences over S of length n at most
SeqsUpTo(S, n) ==
    IF n = 0 THEN { << >> }
    ELSE LET shorter == SeqsUpTo(S, n - 1)
         IN  shorter \cup { Append(q, x) : q \in shorter, x \in S }

VARIABLES
    variant,    \* which server file runs
    proc,       \* the node process: "running" or "exited"
    db,         \* the module-level handle `let db`
    authIndex,  \* the unique index on auth.username: none, pending, built, failed
    store,      \* the collections of the MongoDB database
    req,        \* per slot: the request whose handler is suspended at an await
    last        \* the request answered most recently and its response

vars == <<variant, proc, db, authIndex, store, req, last>>

Collections == {"customers", "products", "auth"}

Idle == [pc |-> "idle"]
NoLast == [request |-> [route |-> "none"], status |-> 0, json |-> [none |-> TRUE]]

(* ------------------------- the document store ------------------------- *)

\* indexes of the documents of coll that match the filter {field: value}
Matching(coll, field, value) ==
    {i \in 1..Len(coll) : coll[i][field] = value}

Min(S) == CHOOSE i \in S : \A j \in S : i <= j

\* collection.findOne({field: value}): the first match in natural order,
\* 0 for null
FindOneBy(coll, field, value) ==
    LET m == Matching(coll, field, value)
    IN  IF m = {} THEN 0 ELSE Min(m)

\* collection.findOne({name})
FindOne(coll, name) == FindOneBy(coll, "name", name)

\* collection.insertOne(doc)
InsertOne(coll, doc) == Append(coll, doc)

\* a replacement update: the document becomes the payload
ReplaceFields(doc, fields) == fields

\* {$set: fields}: named top-level fields are overwritten, the others kept
SetFields(doc, fields) ==
    [f \in DOMAIN doc \cup DOMAIN fields |->
        IF f \in DOMAIN fields THEN fields[f] ELSE doc[f]]

\* updateOne with {upsert: true}: no match inserts the payload
UpdateOneUpsert(coll, name, fields) ==
    IF FindOne(coll, name) = 0
    THEN Append(coll, SetFields([name |-> name], fields))
    ELSE [coll EXCEPT ![FindOne(coll, name)] = SetFields(@, fields)]

\* collection.updateOne({name}, {$set: fields}): the first match only
UpdateOne(coll, name, fields) ==
    IF FindOne(coll, name) = 0 THEN coll
    ELSE [coll EXCEPT ![FindOne(coll, name)] = SetFields(@, fields)]

\* collection.deleteOne({name}): the first match only
DeleteOne(coll, name) ==
    IF FindOne(coll, name) = 0 THEN coll
    ELSE SubSeq(coll, 1, FindOne(coll, name) - 1)
         \o SubSeq(coll, FindOne(coll, name) + 1, Len(coll))

(* ----------------------------- responses ------------------------------ *)

\* a slot that holds no suspended handler
Free(r) == req[r].pc = "idle"

\* handlers suspended at an await
Suspended == Cardinality({r \in Slots : req[r].pc # "idle"})

\* documents in the database
DbSize == Len(store["customers"]) + Len(store["products"]) + Len(store["auth"])

\* res.status(status).json(json) for the request `request`
Respond(request, status, json) ==
    last' = [request |-> request, status |-> status, json |-> json]

\* `db.collection(...)` while db is still undefined throws a TypeError,
\* which the handler's catch turns into a response
TypeErrorJson == [error |-> "Cannot read properties of undefined"]

(* ------------------------------ startup ------------------------------- *)

\* app.listen runs when the file is loaded: requests are accepted from the
\* start, while connectToMongo() is still pending
Init ==
    /\ variant \in Variants
    /\ proc = "running"
    /\ db = "undefined"
    /\ authIndex = "none"
    /\ store = [c \in Collections |-> <<>>]
    /\ req = [r \in Slots |-> Idle]
    /\ last = NoLast

\* client.connect() resolves: the .then callback sets db and issues the
\* createIndex commands without awaiting them
ConnectOk ==
    /\ proc = "running"
    /\ db = "undefined"
    /\ db' = "E_commerce"
    /\ authIndex' = IF variant = "index.js" THEN "pending" ELSE "none"
    /\ UNCHANGED <<variant, proc, store, req, last>>

\* client.connect() rejects: the catch of connectToMongo calls process.exit(1)
ConnectFail ==
    /\ proc = "running"
    /\ db = "undefined"
    /\ proc' = "exited"
    /\ UNCHANGED <<variant, db, authIndex, store, req, last>>

(* --------------------- create: pre-check, then insert ----------------- *)

InsertResult == [acknowledged |-> TRUE]

\* a create whose existence test never finds anything
PostFindNoCheck(r, c, route, body, catchStatus, existsMsg) ==
    /\ proc = "running"
    /\ Free(r)
    /\ db # "undefined"
    /\ req' = [req EXCEPT ![r] =
                   [pc |-> "insertOne", route |-> route, body |-> body]]
    /\ UNCHANGED <<variant, proc, db, authIndex, store, last>>

\* the handler up to its first await: findOne({name})
PostFind(r, c, route, body, catchStatus, existsMsg) ==
    /\ proc = "running"
    /\ Free(r)
    /\ IF db = "undefined"
       THEN /\ Respond([route |-> route, body |-> body], catchStatus,
                       TypeErrorJson)
            /\ UNCHANGED req
       ELSE IF FindOne(store[c], body.name) # 0
       THEN /\ Respond([route |-> route, body |-> body], 400,
                       [error |-> existsMsg])
            /\ UNCHANGED req
       ELSE /\ DbSize + Suspended < MaxDocs   \* room for its document
            /\ req' = [req EXCEPT ![r] =
                          [pc |-> "insertOne", route |-> route, body |-> body]]
            /\ UNCHANGED last
    /\ UNCHANGED <<variant, proc, db, authIndex, store>>

\* an insert that is conditional on the name still being absent
PostInsertIfAbsent(r, c, route) ==
    /\ proc = "running"
    /\ req[r].pc = "insertOne"
    /\ req[r].route = route
    /\ DbSize < MaxDocs
    /\ IF FindOne(store[c], req[r].body.name) # 0
       THEN /\ Respond([route |-> route, body |-> req[r].body], 400,
                       [error |-> "duplicate key"])
            /\ UNCHANGED store
       ELSE /\ store' = [store EXCEPT ![c] = InsertOne(@, req[r].body)]
            /\ Respond([route |-> route, body |-> req[r].body], 201,
                       InsertResult)
    /\ req' = [req EXCEPT ![r] = Idle]
    /\ UNCHANGED <<variant, proc, db, authIndex>>

\* the handler after findOne resolved with null: insertOne(req.body)
PostInsert(r, c, route) ==
    /\ proc = "running"
    /\ req[r].pc = "insertOne"
    /\ req[r].route = route
    /\ DbSize < MaxDocs
    /\ store' = [store EXCEPT ![c] = InsertOne(@, req[r].body)]
    /\ Respond([route |-> route, body |-> req[r].body], 201, InsertResult)
    /\ req' = [req EXCEPT ![r] = Idle]
    /\ UNCHANGED <<variant, proc, db, authIndex>>

\* part_000: app.post('/customers')
PostCustomersFind000(r, body) ==
    /\ variant = "part_000"
    /\ PostFind(r, "customers", "POST /customers", body, 400,
                "Customer with this name already exists")

PostCustomersInsert000(r) ==
    /\ variant = "part_000"
    /\ PostInsert(r, "customers", "POST /customers")

\* index.js: app.post("/customers") inserts without a pre-check
PostCustomers(body) ==
    /\ variant = "index.js"
    /\ proc = "running"
    /\ IF db = "undefined"
       THEN /\ Respond([route |-> "POST /customers", body |-> body], 500,
                       TypeErrorJson)
            /\ UNCHANGED store
       ELSE /\ DbSize < MaxDocs
            /\ store' = [store EXCEPT !["customers"] = InsertOne(@, body)]
            /\ Respond([route |-> "POST /customers", body |-> body], 201,
                       InsertResult)
    /\ UNCHANGED <<variant, proc, db, authIndex, req>>

\* index.js: app.post("/products")
PostProductsFind(r, body) ==
    /\ variant = "index.js"
    /\ PostFind(r, "products", "POST /products", body, 500,
                "Product with this name already exists")

PostProductsInsert(r) ==
    /\ variant = "index.js"
    /\ PostInsert(r, "products", "POST /products")

\* part_000: app.post('/products')
PostProductsFind000(r, body) ==
    /\ variant = "part_000"
    /\ PostFind(r, "products", "POST /products", body, 400,
                "Product with this name already exists")

PostProductsInsert000(r) ==
    /\ variant = "part_000"
    /\ PostInsert(r, "products", "POST /products")

(* ------------------ get, update and delete by name -------------------- *)

GetByName(c, route, name, notFound) ==
    /\ proc = "running"
    /\ IF db = "undefined"
       THEN Respond([route |-> route, name |-> name], 500, TypeErrorJson)
       ELSE IF FindOne(store[c], name) # 0
       THEN Respond([route |-> route, name |-> name], 200,
                    store[c][FindOne(store[c], name)])
       ELSE Respond([route |-> route, name |-> name], 404,
                    [message |-> notFound])
    /\ UNCHANGED <<variant, proc, db, authIndex, store, req>>

PutByName(c, route, name, body, updated, notFound) ==
    /\ proc = "running"
    /\ IF db = "undefined"
       THEN /\ Respond([route |-> route, name |-> name, body |-> body], 500,
                       TypeErrorJson)
            /\ UNCHANGED store
       ELSE /\ store' = [store EXCEPT ![c] = UpdateOne(@, name, body)]
            /\ IF FindOne(store[c], name) # 0    \* result.matchedCount > 0
               THEN Respond([route |-> route, name |-> name, body |-> body],
                            200, [message |-> updated])
               ELSE Respond([route |-> route, name |-> name, body |-> body],
                            404, [message |-> notFound])
    /\ UNCHANGED <<variant, proc, db, authIndex, req>>

DeleteByName(c, route, name, deleted, notFound) ==
    /\ proc = "running"
    /\ IF db = "undefined"
       THEN /\ Respond([route |-> route, name |-> name], 500, TypeErrorJson)
            /\ UNCHANGED store
       ELSE /\ store' = [store EXCEPT ![c] = DeleteOne(@, name)]
            /\ IF FindOne(store[c], name) # 0    \* result.deletedCount > 0
               THEN Respond([route |-> route, name |-> name], 200,
                            [message |-> deleted])
               ELSE Respond([route |-> route, name |-> name], 404,
                            [message |-> notFound])
    /\ UNCHANGED <<variant, proc, db, authIndex, req>>

\* part_000 only: index.js has no GET /customers/:name
GetCustomer000(name) ==
    /\ variant = "part_000"
    /\ GetByName("customers", "GET /customers/:name", name,
                 "Customer not found")

PutCustomer(name, body) ==
    /\ variant = "index.js"
    /\ PutByName("customers", "PUT /customers/:name", name, body,
                 "Customer updated successfully", "Customer not found")

PutCustomer000(name, body) ==
    /\ variant = "part_000"
    /\ PutByName("customers", "PUT /customers/:name", name, body,
                 "Customer updated successfully", "Customer not found")

DeleteCustomer(name) ==
    /\ variant = "index.js"
    /\ DeleteByName("customers", "DELETE /customers/:name", name,
                    "Customer deleted successfully", "Customer not found")

DeleteCustomer000(name) ==
    /\ variant = "part_000"
    /\ DeleteByName("customers", "DELETE /customers/:name", name,
                    "Customer deleted successfully", "Customer not found")

GetProduct(name) ==
    /\ variant = "index.js"
    /\ GetByName("products", "GET /products/:name", name,
                 "Product not found")

GetProduct000(name) ==
    /\ variant = "part_000"
    /\ GetByName("products", "GET /products/:name", name,
                 "Product not found")

PutProduct(name, body) ==
    /\ variant = "index.js"
    /\ PutByName("products", "PUT /products/:name", name, body,
                 "Product updated successfully", "Product not found")

PutProduct000(name, body) ==
    /\ variant = "part_000"
    /\ PutByName("products", "PUT /products/:name", name, body,
                 "Product updated successfully", "Product not found")

DeleteProduct(name) ==
    /\ variant = "index.js"
    /\ DeleteByName("products", "DELETE /products/:name", name,
                    "Product deleted successfully", "Product not found")

DeleteProduct000(name) ==
    /\ variant = "part_000"
    /\ DeleteByName("products", "DELETE /products/:name", name,
                    "Product deleted successfully", "Product not found")

(* --------------------------- specification ---------------------------- *)

CustomerRequests ==
    \/ \E body \in CustomerBodies :
           \/ PostCustomers(body)
           \/ \E r \in Slots : PostCustomersFind000(r, body)
    \/ \E r \in Slots : PostCustomersInsert000(r)
    \/ \E name \in Names :
           \/ GetCustomer000(name)
           \/ DeleteCustomer(name) \/ DeleteCustomer000(name)
           \/ \E body \in CustomerUpdates :
                  PutCustomer(name, body) \/ PutCustomer000(name, body)

ProductRequests ==
    \/ \E r \in Slots, body \in ProductBodies :
           PostProductsFind(r, body) \/ PostProductsFind000(r, body)
    \/ \E r \in Slots : PostProductsInsert(r) \/ PostProductsInsert000(r)
    \/ \E name \in Names :
           \/ GetProduct(name) \/ GetProduct000(name)
           \/ DeleteProduct(name) \/ DeleteProduct000(name)
           \/ \E body \in ProductUpdates :
                  PutProduct(name, body) \/ PutProduct000(name, body)

Next == ConnectOk \/ ConnectFail \/ CustomerRequests \/ ProductRequests

Spec == Init /\ [][Next]_vars

\* no handler is suspended between its existence test and its insert
NoneSuspended == \A r \in Slots : Free(r)

\* a create, update or delete request is taken up while none is in progress
SeqCustomerRequests ==
    /\ NoneSuspended
    /\ \/ \E body \in CustomerBodies :
              \/ PostCustomers(body)
              \/ \E r \in Slots : PostCustomersFind000(r, body)
       \/ \E name \in Names :
              \/ DeleteCustomer(name) \/ DeleteCustomer000(name)
              \/ \E body \in CustomerUpdates :
                     PutCustomer(name, body) \/ PutCustomer000(name, body)

SeqProductRequests ==
    /\ NoneSuspended
    /\ \/ \E r \in Slots, body \in ProductBodies :
              PostProductsFind(r, body) \/ PostProductsFind000(r, body)
       \/ \E name \in Names :
              \/ DeleteProduct(name) \/ DeleteProduct000(name)
              \/ \E body \in ProductUpdates :
                     PutProduct(name, body) \/ PutProduct000(name, body)

\* the create in progress completes
SeqCompletes ==
    \E r \in Slots :
        \/ PostCustomersInsert000(r)
        \/ PostProductsInsert(r) \/ PostProductsInsert000(r)

NextSeq ==
    \/ ConnectOk
    \/ ConnectFail
    \/ SeqCustomerRequests
    \/ SeqProductRequests
    \/ SeqCompletes

\* the servers with their requests handled one at a time
SpecSeq == Init /\ [][NextSeq]_vars

(* ------------------------------- auth --------------------------------- *)

\* bcrypt.hash(password, 10) with the salt it drew: "$2b$10$", the salt and
\* the digest of salt and password
bcryptHash(password, salt) ==
    "$2b$10$" \o salt \o "H(" \o salt \o "," \o password \o ")"

\* bcrypt.compare(password, hash): hashes password with the salt found in
\* `hash` and compares
bcryptCompare(password, hash) ==
    /\ Len(hash) > 9
    /\ hash = bcryptHash(password, SubSeq(hash, 8, 9))

\* createIndex({username: 1}, {unique: true}) takes effect on the server:
\* it builds the index, or rejects when two stored credentials share a
\* username; nothing handles the rejection (node 14 warns, node 15+ exits)
CreateAuthIndex ==
    /\ proc = "running"
    /\ authIndex = "pending"
    /\ IF \A i, j \in 1..Len(store["auth"]) :
             i # j => store["auth"][i].username # store["auth"][j].username
       THEN authIndex' = "built" /\ proc' = proc
       ELSE authIndex' = "failed" /\ proc' \in {"running", "exited"}
    /\ UNCHANGED <<variant, db, store, req, last>>

\* a signup that keeps the password as submitted
SignupFindPlain(r, body) ==
    /\ variant = "index.js"
    /\ proc = "running"
    /\ Free(r)
    /\ IF db = "undefined"
       THEN /\ Respond([route |-> "POST /auth/signup", body |-> body], 500,
                       TypeErrorJson)
            /\ UNCHANGED req
       ELSE IF FindOneBy(store["auth"], "username", body.username) # 0
       THEN /\ Respond([route |-> "POST /auth/signup", body |-> body], 400,
                       [error |-> "User already exists"])
            /\ UNCHANGED req
       ELSE /\ DbSize + Suspended < MaxDocs
            /\ req' = [req EXCEPT ![r] =
                          [pc |-> "insertOne", route |-> "POST /auth/signup",
                           body |-> body, hashedPassword |-> body.password]]
            /\ UNCHANGED last
    /\ UNCHANGED <<variant, proc, db, authIndex, store>>

\* index.js: app.post('/auth/signup') up to insertOne: findOne({username}),
\* then bcrypt.hash (which reads no shared state, so its await is not a
\* separate step)
SignupFind(r, body) ==
    /\ variant = "index.js"
    /\ proc = "running"
    /\ Free(r)
    /\ IF db = "undefined"
       THEN /\ Respond([route |-> "POST /auth/signup", body |-> body], 500,
                       TypeErrorJson)
            /\ UNCHANGED req
       ELSE IF FindOneBy(store["auth"], "username", body.username) # 0
       THEN /\ Respond([route |-> "POST /auth/signup", body |-> body], 400,
                       [error |-> "User already exists"])
            /\ UNCHANGED req
       ELSE /\ DbSize + Suspended < MaxDocs   \* room for its document
            /\ \E salt \in Salts :
                 req' = [req EXCEPT ![r] =
                            [pc |-> "insertOne", route |-> "POST /auth/signup",
                             body |-> body,
                             hashedPassword |->
                                 bcryptHash(body.password, salt)]]
            /\ UNCHANGED last
    /\ UNCHANGED <<variant, proc, db, authIndex, store>>

\* an insert that no index ever rejects
SignupInsertUnchecked(r) ==
    /\ proc = "running"
    /\ req[r].pc = "insertOne"
    /\ req[r].route = "POST /auth/signup"
    /\ DbSize < MaxDocs
    /\ store' = [store EXCEPT !["auth"] =
                    InsertOne(@, [username |-> req[r].body.username,
                                  password |-> req[r].hashedPassword])]
    /\ Respond([route |-> "POST /auth/signup", body |-> req[r].body],
               201, [message |-> "User created successfully"])
    /\ req' = [req EXCEPT ![r] = Idle]
    /\ UNCHANGED <<variant, proc, db, authIndex>>

\* index.js: app.post('/auth/signup') from insertOne(newUser) on; the unique
\* index, once built, rejects a second credential of one username and the
\* catch answers 500
SignupInsert(r) ==
    /\ proc = "running"
    /\ req[r].pc = "insertOne"
    /\ req[r].route = "POST /auth/signup"
    /\ IF authIndex = "built"
          /\ FindOneBy(store["auth"], "username", req[r].body.username) # 0
       THEN /\ Respond([route |-> "POST /auth/signup", body |-> req[r].body],
                       500, [error |-> "E11000 duplicate key error"])
            /\ UNCHANGED store
       ELSE /\ DbSize < MaxDocs
            /\ store' = [store EXCEPT !["auth"] =
                            InsertOne(@, [username |-> req[r].body.username,
                                          password |-> req[r].hashedPassword])]
            /\ Respond([route |-> "POST /auth/signup", body |-> req[r].body],
                       201, [message |-> "User created successfully"])
    /\ req' = [req EXCEPT ![r] = Idle]
    /\ UNCHANGED <<variant, proc, db, authIndex>>

\* a login that tells a wrong password from an unknown username
LoginLeaky(body) ==
    /\ variant = "index.js"
    /\ proc = "running"
    /\ IF db = "undefined"
       THEN Respond([route |-> "POST /auth/login", body |-> body], 500,
                    TypeErrorJson)
       ELSE LET i == FindOneBy(store["auth"], "username", body.username)
            IN  IF i = 0
                THEN Respond([route |-> "POST /auth/login", body |-> body],
                             400, [error |-> "Invalid username or password"])
                ELSE IF ~bcryptCompare(body.password,
                                       store["auth"][i].password)
                THEN Respond([route |-> "POST /auth/login", body |-> body],
                             400, [error |-> "Invalid password"])
                ELSE Respond([route |-> "POST /auth/login", body |-> body],
                             200, [message |-> "Login successful"])
    /\ UNCHANGED <<variant, proc, db, authIndex, store, req>>

\* index.js: app.post('/auth/login'): findOne({username}), bcrypt.compare
\* with the credential found; no credential is ever changed or removed, so
\* the handler is one step
Login(body) ==
    /\ variant = "index.js"
    /\ proc = "running"
    /\ IF db = "undefined"
       THEN Respond([route |-> "POST /auth/login", body |-> body], 500,
                    TypeErrorJson)
       ELSE LET i == FindOneBy(store["auth"], "username", body.username)
            IN  IF i = 0
                THEN Respond([route |-> "POST /auth/login", body |-> body],
                             400, [error |-> "Invalid username or password"])
                ELSE IF ~bcryptCompare(body.password,
                                       store["auth"][i].password)
                THEN Respond([route |-> "POST /auth/login", body |-> body],
                             400, [error |-> "Invalid username or password"])
                ELSE Respond([route |-> "POST /auth/login", body |-> body],
                             200, [message |-> "Login successful"])
    /\ UNCHANGED <<variant, proc, db, authIndex, store, req>>

AuthRequests ==
    \/ \E r \in Slots, body \in Credentials : SignupFind(r, body)
    \/ \E r \in Slots : SignupInsert(r)
    \/ \E body \in Credentials : Login(body)

InitAuth == Init /\ variant = "index.js"

NextAuth == ConnectOk \/ ConnectFail \/ CreateAuthIndex \/ AuthRequests

\* the auth routes of index.js and its startup
SpecAuth == InitAuth /\ [][NextAuth]_vars

\* requests of index.js outside /auth
OtherRequests ==
    \/ \E body \in CustomerBodies : PostCustomers(body)
    \/ \E name \in Names : DeleteCustomer(name) \/ GetProduct(name)
    \/ \E r \in Slots, body \in ProductBodies : PostProductsFind(r, body)
    \/ \E r \in Slots : PostProductsInsert(r)

NextAll == NextAuth \/ OtherRequests

\* index.js with auth requests among customer and product requests
SpecAll == InitAuth /\ [][NextAll]_vars

(* ----------------------------- analytics ------------------------------ *)

RECURSIVE Unwind(_)
\* { $unwind: "$products" }: one document per element of the array, none
\* for a document without the field or with an empty array
Unwind(coll) ==
    IF coll = << >> THEN << >>
    ELSE LET doc == Head(coll)
         IN  (IF "products" \in DOMAIN doc
              THEN [i \in 1..Len(doc.products) |->
                        [doc EXCEPT !.products = doc.products[i]]]
              ELSE << >>) \o Unwind(Tail(coll))

RECURSIVE SumQuantity(_, _)
\* { $sum: "$products.quantity" } over the documents of the group `id`
SumQuantity(docs, id) ==
    IF docs = << >> THEN 0
    ELSE (IF Head(docs).products.name = id
          THEN Head(docs).products.quantity ELSE 0)
         + SumQuantity(Tail(docs), id)

\* { $group: { _id: "$products.name", totalSold: { $sum: ... } } }; the
\* stage emits its groups in no specified order
Group(docs) ==
    { [_id |-> id, totalSold |-> SumQuantity(docs, id)] :
          id \in { docs[i].products.name : i \in 1..Len(docs) } }

RECURSIVE SortAsc(_)
\* an ordering by totalSold, smallest first
SortAsc(groups) ==
    IF groups = {} THEN { << >> }
    ELSE UNION { { <<g>> \o rest : rest \in SortAsc(groups \ {g}) } :
                 g \in { g \in groups :
                           \A h \in groups : h.totalSold >= g.totalSold } }

RECURSIVE SortDesc(_)
\* { $sort: { totalSold: -1 } }: every ordering with the larger totalSold
\* first; groups of equal totalSold come in any order
SortDesc(groups) ==
    IF groups = {} THEN { << >> }
    ELSE UNION { { <<g>> \o rest : rest \in SortDesc(groups \ {g}) } :
                 g \in { g \in groups :
                           \A h \in groups : h.totalSold <= g.totalSold } }

\* { $limit: n }
Limit(docs, n) == SubSeq(docs, 1, IF Len(docs) < n THEN Len(docs) ELSE n)

\* the arrays aggregate([...]).toArray() can resolve to
TopProductsPipeline(coll) ==
    { Limit(sorted, 5) : sorted \in SortDesc(Group(Unwind(coll))) }

\* the handler of GET /analytics/top-products
TopProductsHandler ==
    /\ proc = "running"
    /\ IF db = "undefined"
       THEN Respond([route |-> "GET /analytics/top-products"], 500,
                    TypeErrorJson)
       ELSE \E topProducts \in TopProductsPipeline(store["customers"]) :
                Respond([route |-> "GET /analytics/top-products"], 200,
                        topProducts)
    /\ UNCHANGED <<variant, proc, db, authIndex, store, req>>

\* index.js: app.get("/analytics/top-products")
TopProducts == variant = "index.js" /\ TopProductsHandler

\* part_000: app.get('/analytics/top-products')
TopProducts000 == variant = "part_000" /\ TopProductsHandler

\* a server started on a database that holds customer records
InitTop ==
    /\ variant \in Variants
    /\ proc = "running"
    /\ db = "undefined"
    /\ authIndex = "none"
    /\ store \in { [customers |-> c, products |-> << >>, auth |-> << >>] :
                       c \in SeqsUpTo(Records, MaxRecords) }
    /\ req = [r \in Slots |-> Idle]
    /\ last = NoLast

NextTop == ConnectOk \/ ConnectFail \/ TopProducts \/ TopProducts000

\* the top-products query over stored customer records
SpecTop == InitTop /\ [][NextTop]_vars

(* ------------------------- analytics: sales --------------------------- *)

\* new Date(s) of a string the parser accepts, in hours since the epoch:
\* a date alone is midnight UTC of that day
DateParse ==
    ("2023-07-01" :> 468936) @@ ("2023-07-02" :> 468960)
        @@ ("2023-07-03" :> 468984) @@ ("2023-07-02T10:00:00Z" :> 468970)

\* new Date(s); anything else, the absent parameter included, is Invalid Date
NewDate(s) ==
    IF s \in DOMAIN DateParse
    THEN [valid |-> TRUE, time |-> DateParse[s]]
    ELSE [valid |-> FALSE, time |-> 0]

\* the BSON date the driver sends for a Date: its time value; the time of
\* an Invalid Date is NaN, which the driver's conversion to a 64-bit integer
\* turns into 0, the epoch
BsonDate(d) == [type |-> "date", time |-> IF d.valid THEN d.time ELSE 0]

\* $dateToString with format "%Y-%m-%d" (UTC) of the days that occur
DayString ==
    (0 :> "1970-01-01") @@ (19539 :> "2023-07-01")
        @@ (19540 :> "2023-07-02") @@ (19541 :> "2023-07-03")

DateToString(date) == DayString[date.time \div 24]

\* a JSON body's date is a string and is stored as a string
JsonDate(s) == [type |-> "string", value |-> s]

\* values of req.query.start and req.query.end; "undefined" is the absent
\* parameter
QueryDates == {"2023-07-01", "2023-07-02", "2023-07-03", "garbage", "undefined"}

QueryProducts == {"p1", "p2"}

\* customer records with a purchase: dated by a BSON date (written by
\* another client of the database) or by a string (written by POST
\* /customers), or without date and total
SalesRecords ==
    { [name |-> "a", date |-> [type |-> "date", time |-> 468936],
       total |-> 10,
       products |-> << [name |-> "p1", quantity |-> 2, price |-> 5] >>],
      [name |-> "a", date |-> [type |-> "date", time |-> 468970],
       total |-> 25,
       products |-> << [name |-> "p1", quantity |-> 1, price |-> 5],
                       [name |-> "p2", quantity |-> 2, price |-> 10] >>],
      [name |-> "a", date |-> [type |-> "date", time |-> 468960],
       total |-> 5,
       products |-> << [name |-> "p1", quantity |-> 1, price |-> 5] >>],
      [name |-> "a", date |-> [type |-> "date", time |-> 468994],
       total |-> 40,
       products |-> << [name |-> "p2", quantity |-> 4, price |-> 10] >>],
      [name |-> "a", date |-> JsonDate("2023-07-02T10:00:00Z"),
       total |-> 7,
       products |-> << [name |-> "p1", quantity |-> 1, price |-> 7] >>],
      [name |-> "a", email |-> "e1"] }

\* req.body of a POST /customers that records a purchase
SalesBodies ==
    { [name |-> "b", date |-> JsonDate("2023-07-02T10:00:00Z"),
       total |-> 7,
       products |-> << [name |-> "p1", quantity |-> 1, price |-> 7] >>] }

\* { date: { $gte: from, $lte: to } }: a document matches when it has the
\* field, its value is a BSON date (a comparison matches values of the
\* operand's type only) and lies between the two
MatchDate(doc, from, to) ==
    /\ "date" \in DOMAIN doc
    /\ doc.date.type = "date"
    /\ from.time <= doc.date.time
    /\ doc.date.time <= to.time

\* $match on date
MatchDateRange(docs, from, to) ==
    SelectSeq(docs, LAMBDA doc : MatchDate(doc, from, to))

\* $match on products.name and date, after $unwind
MatchProductDateRange(docs, productName, from, to) ==
    SelectSeq(docs, LAMBDA doc : /\ doc.products.name = productName
                                 /\ MatchDate(doc, from, to))

\* "$total": a document without the field adds nothing to $sum
Total(doc) == IF "total" \in DOMAIN doc THEN doc.total ELSE 0

\* { $multiply: ["$products.quantity", "$products.price"] }
LineAmount(doc) == doc.products.quantity * doc.products.price

\* what $group reads of a document of GET /analytics/sales: the
\* $dateToString of its date and its total
TotalRows(docs) ==
    [i \in 1..Len(docs) |->
        [day |-> DateToString(docs[i].date), amount |-> Total(docs[i])]]

\* what $group reads of an unwound document of GET /analytics/product-sales
LineRows(docs) ==
    [i \in 1..Len(docs) |->
        [day |-> DateToString(docs[i].date), amount |-> LineAmount(docs[i])]]

RECURSIVE SumDay(_, _)
\* $sum of the amounts of the group of `day`
SumDay(rows, day) ==
    IF rows = << >> THEN 0
    ELSE (IF Head(rows).day = day THEN Head(rows).amount ELSE 0)
         + SumDay(Tail(rows), day)

\* $group: one group per day string, in no specified order
GroupByDay(rows) ==
    { [_id |-> day, totalSales |-> SumDay(rows, day)] :
          day \in { rows[i].day : i \in 1..Len(rows) } }

\* the order of two "%Y-%m-%d" strings is the order of their days
DayOf(str) == CHOOSE d \in DOMAIN DayString : DayString[d] = str

RECURSIVE SortById(_)
\* { $sort: { _id: 1 } }; the _id of a group is unique
SortById(groups) ==
    IF groups = {} THEN << >>
    ELSE LET g == CHOOSE g \in groups :
                      \A h \in groups : DayOf(g._id) <= DayOf(h._id)
         IN  <<g>> \o SortById(groups \ {g})

\* the pipeline of GET /analytics/sales
SalesPipeline(coll, start, end) ==
    SortById(GroupByDay(TotalRows(
        MatchDateRange(coll, BsonDate(NewDate(start)),
                       BsonDate(NewDate(end))))))

\* the handler of GET /analytics/sales
SalesHandler(start, end) ==
    /\ proc = "running"
    /\ IF db = "undefined"
       THEN Respond([route |-> "GET /analytics/sales", start |-> start,
                     end |-> end], 500, TypeErrorJson)
       ELSE Respond([route |-> "GET /analytics/sales", start |-> start,
                     end |-> end], 200,
                    SalesPipeline(store["customers"], start, end))
    /\ UNCHANGED <<variant, proc, db, authIndex, store, req>>

\* index.js: app.get("/analytics/sales")
Sales(start, end) == variant = "index.js" /\ SalesHandler(start, end)

\* part_000: app.get('/analytics/sales')
Sales000(start, end) == variant = "part_000" /\ SalesHandler(start, end)

\* the pipeline of GET /analytics/product-sales
ProductSalesPipeline(coll, productName, start, end) ==
    SortById(GroupByDay(LineRows(
        MatchProductDateRange(Unwind(coll), productName,
                              BsonDate(NewDate(start)),
                              BsonDate(NewDate(end))))))

\* index.js: app.get("/analytics/product-sales")
ProductSales(productName, start, end) ==
    /\ variant = "index.js"
    /\ proc = "running"
    /\ IF db = "undefined"
       THEN Respond([route |-> "GET /analytics/product-sales",
                     productName |-> productName, start |-> start,
                     end |-> end], 500, TypeErrorJson)
       ELSE Respond([route |-> "GET /analytics/product-sales",
                     productName |-> productName, start |-> start,
                     end |-> end], 200,
                    ProductSalesPipeline(store["customers"], productName,
                                         start, end))
    /\ UNCHANGED <<variant, proc, db, authIndex, store, req>>

\* a server started on a database that holds purchase records
InitSales ==
    /\ variant \in Variants
    /\ proc = "running"
    /\ db = "undefined"
    /\ authIndex = "none"
    /\ store \in { [customers |-> c, products |-> << >>, auth |-> << >>] :
                       c \in SeqsUpTo(SalesRecords, MaxRecords) }
    /\ req = [r \in Slots |-> Idle]
    /\ last = NoLast

\* POST /customers of a purchase
PostSale ==
    \E body \in SalesBodies :
        \/ PostCustomers(body)
        \/ \E r \in Slots : PostCustomersFind000(r, body)

NextSales ==
    \/ ConnectOk
    \/ ConnectFail
    \/ PostSale
    \/ \E r \in Slots : PostCustomersInsert000(r)
    \/ \E start \in QueryDates, end \in QueryDates :
           Sales(start, end) \/ Sales000(start, end)
    \/ \E productName \in QueryProducts, start \in QueryDates,
          end \in QueryDates : ProductSales(productName, start, end)

\* the sales query over stored purchase records
SpecSales == InitSales /\ [][NextSales]_vars

(* --------------------------- nearby customers ------------------------- *)

\* the GET routes of part_000 under /customers, in the order the file
\* registers them
GetRoutes000 ==
    << [path |-> <<"customers">>, handler |-> "getCustomers"],
       [path |-> <<"customers", ":name">>, handler |-> "getCustomerByName"],
       [path |-> <<"customers", "nearby">>, handler |-> "nearbyCustomers"] >>

\* a path segment matches a route segment that is a parameter or equal to it
SegmentMatches(pattern, segment) ==
    SubSeq(pattern, 1, 1) = ":" \/ pattern = segment

PathMatches(pattern, path) ==
    /\ Len(pattern) = Len(path)
    /\ \A i \in 1..Len(path) : SegmentMatches(pattern[i], path[i])

\* express runs the handler of the first registered route that matches
\* (0: none matches)
Dispatch(routes, path) ==
    LET m == { i \in 1..Len(routes) : PathMatches(routes[i].path, path) }
    IN  IF m = {} THEN 0 ELSE Min(m)

\* parseFloat of req.query.longitude and req.query.latitude, in thousandths
\* of a degree; NaN for the absent parameter
ParseFloat(str) ==
    IF str = "0" THEN [nan |-> FALSE, value |-> 0]
    ELSE IF str = "0.001" THEN [nan |-> FALSE, value |-> 1]
    ELSE [nan |-> TRUE, value |-> 0]

\* parseInt of req.query.maxDistance, in meters
ParseInt(str) ==
    IF str = "0" THEN [nan |-> FALSE, value |-> 0]
    ELSE IF str = "150" THEN [nan |-> FALSE, value |-> 150]
    ELSE IF str = "500" THEN [nan |-> FALSE, value |-> 500]
    ELSE [nan |-> TRUE, value |-> 0]

QueryLongitudes == {"0"}
QueryLatitudes == {"0", "0.001", "undefined"}
QueryDistances == {"0", "150", "500"}

\* customers located on the meridian 0, coordinates in thousandths of a
\* degree, and a customer without location
NearbyRecords ==
    { [name |-> "a",
       location |-> [type |-> "Point", coordinates |-> <<0, 0>>]],
      [name |-> "a",
       location |-> [type |-> "Point", coordinates |-> <<0, 1>>]],
      [name |-> "a",
       location |-> [type |-> "Point", coordinates |-> <<0, 4>>]],
      [name |-> "a", email |-> "e1"] }

\* meters between two points of one meridian: 111 to the thousandth of a
\* degree of latitude
Distance(p, q) ==
    111 * (IF p[2] < q[2] THEN q[2] - p[2] ELSE p[2] - q[2])

\* the documents $near selects: those with a location within maxDistance
NearIndexes(coll, point, maxDistance) ==
    { i \in 1..Len(coll) :
        /\ "location" \in DOMAIN coll[i]
        /\ Distance(coll[i].location.coordinates, point) <= maxDistance }

RECURSIVE NearestFirst(_, _, _)
\* the orders $near can return them in: nearest first
NearestFirst(coll, point, indexes) ==
    IF indexes = {} THEN { << >> }
    ELSE UNION { { <<coll[i]>> \o rest :
                     rest \in NearestFirst(coll, point, indexes \ {i}) } :
                 i \in { i \in indexes : \A j \in indexes :
                           Distance(coll[i].location.coordinates, point)
                             <= Distance(coll[j].location.coordinates, point) } }

\* part_000: app.get('/customers/nearby'): the responses it can send
NearbyCustomers(request) ==
    LET longitude == ParseFloat(request.longitude)
        latitude == ParseFloat(request.latitude)
        maxDistance == ParseInt(request.maxDistance)
    IN  IF longitude.nan \/ latitude.nan \/ maxDistance.nan
        THEN Respond(request, 500, [error |-> "invalid $near query"])
        ELSE \E nearbyCustomers \in
                 NearestFirst(store["customers"],
                     <<longitude.value, latitude.value>>,
                     NearIndexes(store["customers"],
                         <<longitude.value, latitude.value>>,
                         maxDistance.value)) :
               Respond(request, 200, nearbyCustomers)

\* part_000: GET /customers/nearby?longitude&latitude&maxDistance as express
\* dispatches it
GetCustomersNearby000(longitude, latitude, maxDistance) ==
    /\ variant = "part_000"
    /\ proc = "running"
    /\ LET request == [route |-> "GET /customers/nearby",
                       longitude |-> longitude, latitude |-> latitude,
                       maxDistance |-> maxDistance]
           handler == GetRoutes000[Dispatch(GetRoutes000,
                                            <<"customers", "nearby">>)].handler
       IN  IF db = "undefined"
           THEN Respond(request, 500, TypeErrorJson)
           ELSE IF handler = "getCustomerByName"
           THEN \* req.params.name is "nearby"
                IF FindOne(store["customers"], "nearby") # 0
                THEN Respond(request, 200,
                         store["customers"][FindOne(store["customers"],
                                                    "nearby")])
                ELSE Respond(request, 404,
                             [message |-> "Customer not found"])
           ELSE NearbyCustomers(request)
    /\ UNCHANGED <<variant, proc, db, authIndex, store, req>>

\* the part_000 server started on a database that holds located customers
InitNearby ==
    /\ variant = "part_000"
    /\ proc = "running"
    /\ db = "undefined"
    /\ authIndex = "none"
    /\ store \in { [customers |-> c, products |-> << >>, auth |-> << >>] :
                       c \in SeqsUpTo(NearbyRecords, MaxRecords) }
    /\ req = [r \in Slots |-> Idle]
    /\ last = NoLast

NextNearby ==
    \/ ConnectOk
    \/ ConnectFail
    \/ \E name \in Names : GetCustomer000(name)
    \/ \E longitude \in QueryLongitudes, latitude \in QueryLatitudes,
          maxDistance \in QueryDistances :
           GetCustomersNearby000(longitude, latitude, maxDistance)

\* the nearby query of part_000 over stored customers
SpecNearby == InitNearby /\ [][NextNearby]_vars

(* ------------ properties: create, get, update, delete ----------------- *)

Connected == proc = "running" /\ db = "E_commerce"

\* a step that starts POST /customers with `body`
PostCustomersStep(body) ==
    PostCustomers(body) \/ \E r \in Slots : PostCustomersFind000(r, body)

\* a step that starts POST /products with `body`
PostProductsStep(body) ==
    \E r \in Slots : PostProductsFind(r, body) \/ PostProductsFind000(r, body)

Stored(c, name) == FindOne(store[c], name) # 0

\* the request answered by a step is the one recorded in last'
Answered(route) == last'.request.route = route

\* C1 as stated: a create of a name that is already stored, on customers or
\* on products, answers 400 and leaves the collections as they were.
C1_CreateExistingConflicts ==
    [][ /\ (Connected /\ Answered("POST /customers")
               /\ Stored("customers", last'.request.body.name)
               /\ PostCustomersStep(last'.request.body))
           => (last'.status = 400 /\ store' = store)
        /\ (Connected /\ Answered("POST /products")
               /\ Stored("products", last'.request.body.name)
               /\ PostProductsStep(last'.request.body))
           => (last'.status = 400 /\ store' = store) ]_vars

\* C1 amended: a create of a name that is already stored answers 400 with
\* the "already exists" error and changes no collection, on products (both
\* servers) and on customers of the part_000 server; POST /customers of
\* index.js makes no existence test, answers 201 and appends the entity.
C1_CheckedCreateConflicts ==
    [][ /\ (Connected /\ Answered("POST /customers")
               /\ Stored("customers", last'.request.body.name)
               /\ \E r \in Slots :
                      PostCustomersFind000(r, last'.request.body))
           => /\ last'.status = 400
              /\ last'.json =
                     [error |-> "Customer with this name already exists"]
              /\ UNCHANGED <<store, req>>
        /\ (Connected /\ Answered("POST /customers")
               /\ PostCustomers(last'.request.body))
           => /\ last'.status = 201
              /\ store' = [store EXCEPT !["customers"] =
                              Append(@, last'.request.body)]
        /\ (Connected /\ Answered("POST /products")
               /\ Stored("products", last'.request.body.name)
               /\ PostProductsStep(last'.request.body))
           => /\ last'.status = 400
              /\ last'.json =
                     [error |-> "Product with this name already exists"]
              /\ UNCHANGED <<store, req>> ]_vars

\* a create was answered 400 "already exists" while the name is stored
C1_Witness ==
    /\ last.request.route = "POST /products"
    /\ last.status = 400
    /\ last.json = [error |-> "Product with this name already exists"]
    /\ Stored("products", last.request.body.name)
    /\ store["products"][FindOne(store["products"], last.request.body.name)]
           # last.request.body

CollectionOf(route) ==
    IF route = "POST /customers" THEN "customers" ELSE "products"

\* C2: a create that passed its existence test inserts and answers 201
\* whatever was inserted in the meantime, so two concurrent creates of one
\* name both insert and both answer 201.
C2_InsertAfterCheckUnconditional ==
    [][ \A r \in Slots :
          (req[r].pc = "insertOne" /\ req'[r] # req[r]
              /\ req[r].route \in {"POST /customers", "POST /products"})
          => /\ store' = [store EXCEPT ![CollectionOf(req[r].route)] =
                             Append(@, req[r].body)]
             /\ last' = [request |-> [route |-> req[r].route,
                                      body |-> req[r].body],
                         status |-> 201, json |-> InsertResult] ]_vars

\* two entities named "a" that differ are stored by a server that tests for
\* existence first (only creates can store the name "a"), and the create
\* of the second one was just answered 201
C2_Witness ==
    \E c \in {"customers", "products"} :
        /\ c = "customers" => variant = "part_000"
        /\ Len(store[c]) >= 2
        /\ store[c][1].name = "a"
        /\ store[c][2].name = "a"
        /\ store[c][1] # store[c][2]
        /\ last.status = 201
        /\ last.request = [route |-> IF c = "customers" THEN "POST /customers"
                                     ELSE "POST /products",
                           body |-> store[c][2]]

\* the steps of GET, PUT and DELETE /customers/:name and /products/:name
ByNameStep(c, name) ==
    IF c = "customers"
    THEN \/ GetCustomer000(name)
         \/ DeleteCustomer(name) \/ DeleteCustomer000(name)
         \/ \E body \in CustomerUpdates :
                PutCustomer(name, body) \/ PutCustomer000(name, body)
    ELSE \/ GetProduct(name) \/ GetProduct000(name)
         \/ DeleteProduct(name) \/ DeleteProduct000(name)
         \/ \E body \in ProductUpdates :
                PutProduct(name, body) \/ PutProduct000(name, body)

ByNameRoutes(c) ==
    IF c = "customers"
    THEN {"GET /customers/:name", "PUT /customers/:name",
          "DELETE /customers/:name"}
    ELSE {"GET /products/:name", "PUT /products/:name",
          "DELETE /products/:name"}

\* C3: get, update and delete by a name that no stored entity has answer 404
\* and change nothing; an update inserts nothing and touches no other entity.
C3_MissingNameNotFound ==
    [][ \A c \in {"customers", "products"} :
          (Connected /\ last'.request.route \in ByNameRoutes(c)
              /\ ~Stored(c, last'.request.name)
              /\ ByNameStep(c, last'.request.name))
          => (last'.status = 404 /\ store' = store) ]_vars

\* an update by a missing name was answered 404 while an entity of another
\* name is stored
C3_Witness ==
    /\ last.request.route = "PUT /customers/:name"
    /\ last.status = 404
    /\ ~Stored("customers", last.request.name)
    /\ Len(store["customers"]) > 0

PutStep(c, name, body) ==
    IF c = "customers"
    THEN PutCustomer(name, body) \/ PutCustomer000(name, body)
    ELSE PutProduct(name, body) \/ PutProduct000(name, body)

PutRoute(c) ==
    IF c = "customers" THEN "PUT /customers/:name" ELSE "PUT /products/:name"

\* C4: a successful update sets exactly the named top-level fields of the
\* matched entity, keeps its other fields, and changes no other entity.
C4_UpdateMerges ==
    [][ \A c \in {"customers", "products"} :
          (Connected /\ Answered(PutRoute(c))
              /\ Stored(c, last'.request.name)
              /\ PutStep(c, last'.request.name, last'.request.body))
          => LET body == last'.request.body
                 i == FindOne(store[c], last'.request.name)
                 old == store[c][i]
                 new == store'[c][i]
             IN  /\ last'.status = 200
                 /\ Len(store'[c]) = Len(store[c])
                 /\ DOMAIN new = DOMAIN old \cup DOMAIN body
                 /\ \A f \in DOMAIN body : new[f] = body[f]
                 /\ \A f \in DOMAIN old \ DOMAIN body : new[f] = old[f]
                 /\ \A j \in 1..Len(store[c]) :
                        j # i => store'[c][j] = store[c][j]
                 /\ \A d \in Collections : d # c => store'[d] = store[d] ]_vars

\* an update of the e-mail alone was answered 200 and the entity kept its name
C4_Witness ==
    /\ last.request.route = "PUT /customers/:name"
    /\ last.status = 200
    /\ last.request.body = [email |-> "e2"]
    /\ Len(store["customers"]) = 2
    /\ \E i \in 1..2 : store["customers"][i] =
                           [name |-> last.request.name, email |-> "e2"]

\* C5 as stated: when a create was answered 201 and the next answered
\* request is a get of its name, the get answers 200 with every submitted
\* field at its submitted value.
C5_CreateThenGetRoundTrip ==
    [][ \A name \in Names :
          /\ (last.status = 201
                  /\ last.request.route = "POST /customers"
                  /\ last.request.body.name = name
                  /\ GetCustomer000(name))
             => /\ last'.status = 200
                /\ \A f \in DOMAIN last.request.body :
                       last'.json[f] = last.request.body[f]
          /\ (last.status = 201
                  /\ last.request.route = "POST /products"
                  /\ last.request.body.name = name
                  /\ (GetProduct(name) \/ GetProduct000(name)))
             => /\ last'.status = 200
                /\ \A f \in DOMAIN last.request.body :
                       last'.json[f] = last.request.body[f] ]_vars

(* --------------------------- properties: auth ------------------------- *)

\* a step in which POST /auth/signup answers
SignupAnswers ==
    \/ UNCHANGED req /\ \E r \in Slots : SignupFind(r, last'.request.body)
    \/ \E r \in Slots : SignupInsert(r)

UsernameStored(username) ==
    FindOneBy(store["auth"], "username", username) # 0

\* C6 as stated: a signup answers 400 and leaves auth unchanged if a
\* credential with its username is stored; otherwise it answers 201 with a
\* message alone and appends one credential of the username and a hash of
\* the password.
C6_SignupContract ==
    [][ (Connected /\ Answered("POST /auth/signup") /\ SignupAnswers)
        => IF UsernameStored(last'.request.body.username)
           THEN last'.status = 400 /\ store' = store
           ELSE /\ last'.status = 201
                /\ DOMAIN last'.json = {"message"}
                /\ \E salt \in Salts :
                     store' = [store EXCEPT !["auth"] =
                        Append(@, [username |-> last'.request.body.username,
                                   password |->
                                       bcryptHash(last'.request.body.password,
                                                  salt)])] ]_vars

\* C7: a login that fails, because no credential of the username is stored
\* or because the password does not match the stored hash, answers 400 with
\* one and the same body in both cases.
C7_LoginFailuresIdentical ==
    [][ (Connected /\ Answered("POST /auth/login")
            /\ Login(last'.request.body))
        => LET i == FindOneBy(store["auth"], "username",
                              last'.request.body.username)
           IN  (i = 0 \/ ~bcryptCompare(last'.request.body.password,
                                        store["auth"][i].password))
               => /\ last'.status = 400
                  /\ last'.json = [error |-> "Invalid username or password"]
       ]_vars

\* a login with a stored username and a password that does not match its
\* hash was answered 400 with the body an unknown username gets
C7_Witness ==
    /\ last.request.route = "POST /auth/login"
    /\ last.status = 400
    /\ last.json = [error |-> "Invalid username or password"]
    /\ UsernameStored(last.request.body.username)
    /\ ~bcryptCompare(last.request.body.password,
                      store["auth"][FindOneBy(store["auth"], "username",
                          last.request.body.username)].password)

\* C8 as stated: the auth collection never holds two credentials of one
\* username.
C8_UniqueUsernames ==
    \A i, j \in 1..Len(store["auth"]) :
        i # j => store["auth"][i].username # store["auth"][j].username

\* C9: auth changes only by a signup appending one credential, of its
\* username and of a bcrypt hash that matches the submitted password and is
\* not that password; no other step writes to auth.
C9_StoredPasswordIsHash ==
    [][ store'["auth"] # store["auth"]
        => \E r \in Slots :
             /\ req[r].pc = "insertOne"
             /\ req[r].route = "POST /auth/signup"
             /\ req'[r] = Idle
             /\ Len(store'["auth"]) = Len(store["auth"]) + 1
             /\ SubSeq(store'["auth"], 1, Len(store["auth"])) = store["auth"]
             /\ LET cred == store'["auth"][Len(store'["auth"])]
                IN  /\ cred.username = req[r].body.username
                    /\ bcryptCompare(req[r].body.password, cred.password)
                    /\ cred.password # req[r].body.password
                    /\ \A body \in Credentials :
                           cred.password # body.password ]_vars

\* a signup was answered 201 and the credential stored last holds a hash
\* of its password
C9_Witness ==
    /\ last.request.route = "POST /auth/signup"
    /\ last.status = 201
    /\ Len(store["auth"]) > 0
    /\ LET cred == store["auth"][Len(store["auth"])]
       IN  /\ cred.username = last.request.body.username
           /\ bcryptCompare(last.request.body.password, cred.password)
           /\ cred.password # last.request.body.password

(* ------------------------ properties: analytics ---------------------- *)

\* the product lines stored, by record and position
LinePositions ==
    UNION { { <<i, j>> : j \in 1..Len(store["customers"][i].products) } :
            i \in { i \in 1..Len(store["customers"]) :
                       "products" \in DOMAIN store["customers"][i] } }

LineAt(p) == store["customers"][p[1]].products[p[2]]

RECURSIVE SumOver(_)
SumOver(positions) ==
    IF positions = {} THEN 0
    ELSE LET p == CHOOSE p \in positions : TRUE
         IN  LineAt(p).quantity + SumOver(positions \ {p})

\* the quantity stored for a product name over all lines of all records
TotalSold(name) ==
    SumOver({ p \in LinePositions : LineAt(p).name = name })

SoldNames == { LineAt(p).name : p \in LinePositions }

\* C10: top-products answers at most 5 entries, of distinct product names
\* that occur in the stored lines, each with the sum of the quantities of
\* its lines over all records, in non-increasing order of totalSold; a name
\* is left out only when 5 entries are returned and none of them has a
\* smaller total.
C10_TopProductsRanked ==
    [][ (Connected /\ Answered("GET /analytics/top-products")
            /\ (TopProducts \/ TopProducts000))
        => LET top == last'.json
           IN  /\ last'.status = 200
               /\ Len(top) <= 5
               /\ \A i, j \in 1..Len(top) : i # j => top[i]._id # top[j]._id
               /\ \A i \in 1..Len(top) :
                      /\ top[i]._id \in SoldNames
                      /\ top[i].totalSold = TotalSold(top[i]._id)
               /\ \A i, j \in 1..Len(top) :
                      i < j => top[i].totalSold >= top[j].totalSold
               /\ \A name \in SoldNames :
                      (\A i \in 1..Len(top) : top[i]._id # name)
                      => /\ Len(top) = 5
                         /\ \A i \in 1..Len(top) :
                                top[i].totalSold >= TotalSold(name) ]_vars

\* six product names are stored in two records, one name in both, and two
\* names tie for the last place; the query answered five entries, the first
\* with the total of both records
C10_Witness ==
    /\ last.request.route = "GET /analytics/top-products"
    /\ last.status = 200
    /\ Cardinality(SoldNames) = 6
    /\ Len(last.json) = 5
    /\ last.json[1] = [_id |-> "p1", totalSold |-> 6]
    /\ last.json[5].totalSold = 1
    /\ \E p, q \in LinePositions :
           p[1] # q[1] /\ LineAt(p).name = "p1" /\ LineAt(q).name = "p1"

(* --------------------- properties: analytics, sales ------------------- *)

RECURSIVE SumFn(_, _)
\* the sum of f over S
SumFn(f, S) ==
    IF S = {} THEN 0
    ELSE LET x == CHOOSE x \in S : TRUE
         IN  f[x] + SumFn(f, S \ {x})

\* the instant a record's date denotes, as a BSON date or as a string
InstantOf(doc) ==
    IF doc.date.type = "date" THEN doc.date.time ELSE DateParse[doc.date.value]

\* the stored records whose date lies in [start, end]
RecordsInRange(start, end) ==
    { i \in 1..Len(store["customers"]) :
        /\ "date" \in DOMAIN store["customers"][i]
        /\ DateParse[start] <= InstantOf(store["customers"][i])
        /\ InstantOf(store["customers"][i]) <= DateParse[end] }

RecordDay(i) == InstantOf(store["customers"][i]) \div 24

\* C11 as stated: for parseable start and end the sales query answers one
\* entry per calendar day that has a record dated within [start, end], with
\* the sum of the totals of that day's records within the interval, days
\* ascending; records dated outside the interval add to no entry.
C11_SalesByDay ==
    [][ (Connected /\ Answered("GET /analytics/sales")
            /\ last'.request.start \in DOMAIN DateParse
            /\ last'.request.end \in DOMAIN DateParse
            /\ (Sales(last'.request.start, last'.request.end)
                   \/ Sales000(last'.request.start, last'.request.end)))
        => LET inRange == RecordsInRange(last'.request.start,
                                         last'.request.end)
               days == { RecordDay(i) : i \in inRange }
               sales == last'.json
           IN  /\ last'.status = 200
               /\ Len(sales) = Cardinality(days)
               /\ \A k \in 1..Len(sales) :
                    \E d \in days :
                      /\ sales[k]._id = DayString[d]
                      /\ sales[k].totalSales =
                           SumFn([i \in inRange |->
                                      Total(store["customers"][i])],
                                 { i \in inRange : RecordDay(i) = d })
               /\ \A k, l \in 1..Len(sales) :
                    k < l => DayOf(sales[k]._id) < DayOf(sales[l]._id) ]_vars

\* the product lines, by record and position, of the records dated in
\* [start, end] that are lines of productName
LinesInRange(productName, start, end) ==
    UNION { { <<i, j>> : j \in { j \in 1..Len(store["customers"][i].products) :
                  store["customers"][i].products[j].name = productName } } :
            i \in { i \in RecordsInRange(start, end) :
                      "products" \in DOMAIN store["customers"][i] } }

\* C12 as stated: for parseable start and end the product-sales query
\* answers, per calendar day ascending, the sum of quantity * price over
\* exactly the lines of productName in records dated within [start, end];
\* other products' lines and the records' totals add nothing.
C12_ProductSalesByDay ==
    [][ (Connected /\ Answered("GET /analytics/product-sales")
            /\ last'.request.start \in DOMAIN DateParse
            /\ last'.request.end \in DOMAIN DateParse
            /\ ProductSales(last'.request.productName, last'.request.start,
                            last'.request.end))
        => LET lines == LinesInRange(last'.request.productName,
                                     last'.request.start, last'.request.end)
               days == { RecordDay(p[1]) : p \in lines }
               sales == last'.json
           IN  /\ last'.status = 200
               /\ Len(sales) = Cardinality(days)
               /\ \A k \in 1..Len(sales) :
                    \E d \in days :
                      /\ sales[k]._id = DayString[d]
                      /\ sales[k].totalSales =
                           SumFn([p \in lines |->
                                      LineAt(p).quantity * LineAt(p).price],
                                 { p \in lines : RecordDay(p[1]) = d })
               /\ \A k, l \in 1..Len(sales) :
                    k < l => DayOf(sales[k]._id) < DayOf(sales[l]._id) ]_vars

\* C13 as stated: a sales query whose start or end is not parseable as a
\* date, or is absent, fails: it is answered with an error status and no
\* sales data.
C13_InvalidDatesRejected ==
    [][ (Connected /\ Answered("GET /analytics/sales")
            /\ (last'.request.start \notin DOMAIN DateParse
                   \/ last'.request.end \notin DOMAIN DateParse)
            /\ (Sales(last'.request.start, last'.request.end)
                   \/ Sales000(last'.request.start, last'.request.end)))
        => last'.status >= 400 ]_vars

(* ----------------------- properties: nearby customers ----------------- *)

\* C14 as stated: GET /customers/nearby with longitude, latitude and
\* maxDistance is answered 200 with exactly the customers located within
\* maxDistance meters of the point, nearest first.
C14_NearbyAnswersWithinDistance ==
    [][ (Connected /\ Answered("GET /customers/nearby")
            /\ ~ParseFloat(last'.request.latitude).nan
            /\ GetCustomersNearby000(last'.request.longitude,
                   last'.request.latitude, last'.request.maxDistance))
        => /\ last'.status = 200
           /\ LET point == <<ParseFloat(last'.request.longitude).value,
                             ParseFloat(last'.request.latitude).value>>
                  within == NearIndexes(store["customers"], point,
                                ParseInt(last'.request.maxDistance).value)
                  found == last'.json
              IN  /\ Len(found) = Cardinality(within)
                  /\ \A i \in within :
                       \E k \in 1..Len(found) : found[k] = store["customers"][i]
                  /\ \A k, l \in 1..Len(found) :
                       k < l => Distance(found[k].location.coordinates, point)
                                  <= Distance(found[l].location.coordinates,
                                              point) ]_vars

(* --------------------------- properties: startup ---------------------- *)

\* C15 as stated: no request is answered while the store handle is unset;
\* a step that sends a response is a step of a connected, running server.
C15_NoAnswerBeforeConnected ==
    [][ last' # last => (proc = "running" /\ db = "E_commerce") ]_vars

(* ------------------------- properties: errors ------------------------- *)

\* C16 as stated: a request that fails at its store call is answered 500
\* with a JSON error body, on every endpoint, and a create is answered 400
\* only when an entity of its name is stored.
C16_StoreFailureIs500 ==
    [][ last' # last
        => /\ db = "undefined"
                => (last'.status = 500 /\ DOMAIN last'.json = {"error"})
           /\ (last'.status = 400
                  /\ last'.request.route \in {"POST /customers",
                                              "POST /products"})
                => Stored(CollectionOf(last'.request.route),
                          last'.request.body.name) ]_vars

(* --------------------- properties: names and deletes ------------------ *)

\* C17 as stated: with requests handled one at a time from empty
\* collections, no two customers and no two products have the same name.
C17_NoDuplicateNames ==
    \A c \in {"customers", "products"} :
        \A i, j \in 1..Len(store[c]) :
            i # j => store[c][i].name # store[c][j].name

\* the entities of a collection whose name is not `name`, in stored order
OtherNames(coll, name) == SelectSeq(coll, LAMBDA doc : doc.name # name)

\* C18 as stated: a delete by name that answers 200 leaves no entity of
\* that name and removes no entity of another name, and a get of the name
\* that is the next request answers 404.
C18_DeleteThenGetNotFound ==
    [][ \A c \in {"customers", "products"} :
          /\ (Connected /\ last'.status = 200
                 /\ last'.request.route
                      = (IF c = "customers" THEN "DELETE /customers/:name"
                                            ELSE "DELETE /products/:name")
                 /\ store' # store)
             => /\ FindOne(store'[c], last'.request.name) = 0
                /\ OtherNames(store'[c], last'.request.name)
                     = OtherNames(store[c], last'.request.name)
          /\ (last.status = 200
                 /\ last.request.route
                      = (IF c = "customers" THEN "DELETE /customers/:name"
                                            ELSE "DELETE /products/:name")
                 /\ last'.request.route
                      = (IF c = "customers" THEN "GET /customers/:name"
                                            ELSE "GET /products/:name")
                 /\ last'.request.name = last.request.name)
             => last'.status = 404 ]_vars

(* ---------------------- properties: login and auth -------------------- *)

\* C20 as stated: a login answers 200 exactly when auth holds a credential
\* of its username whose hash matches its password, and it leaves auth
\* unchanged.
C20_LoginIffCredentialMatches ==
    [][ (Connected /\ Answered("POST /auth/login")
            /\ Login(last'.request.body))
        => /\ (last'.status = 200)
                <=> \E i \in 1..Len(store["auth"]) :
                      /\ store["auth"][i].username
                           = last'.request.body.username
                      /\ bcryptCompare(last'.request.body.password,
                                       store["auth"][i].password)
           /\ store' = store ]_vars

\* what the requests outside /auth read and write
NonAuthState == <<variant, proc, db, store["customers"], store["products"]>>

\* C19 as stated, in its consequences for one run: a step that answers a
\* signup or a login, or that writes to auth, changes nothing that other
\* requests read; and as a server without signups keeps running once it is
\* connected, so does the server whatever signups it has handled.
C19_AuthHasNoEffect ==
    [][ /\ (store'["auth"] # store["auth"]
               \/ (last' # last
                      /\ last'.request.route \in {"POST /auth/signup",
                                                  "POST /auth/login"}))
           => UNCHANGED NonAuthState
        /\ db = "E_commerce" => proc' = proc ]_vars

\* the credentials stored for a username
CredentialsOf(auth, username) ==
    { i \in 1..Len(auth) : auth[i].username = username }

\* C21: with the unique index built, a signup that passed its existence
\* test and reaches its insert after another signup stored the username is
\* rejected by the store: it answers 500 with the store's error, not the
\* 400 "User already exists", and stores nothing; the signup that inserts
\* first answers 201; either way exactly one credential of the username is
\* stored afterwards.
C21_SecondSignupRejected ==
    [][ \A r \in Slots :
          (authIndex = "built"
              /\ req[r].pc = "insertOne"
              /\ req[r].route = "POST /auth/signup"
              /\ req'[r] = Idle)
          => /\ IF UsernameStored(req[r].body.username)
                THEN /\ last'.status = 500
                     /\ DOMAIN last'.json = {"error"}
                     /\ last'.json # [error |-> "User already exists"]
                     /\ store' = store
                ELSE /\ last'.status = 201
                     /\ Len(store'["auth"]) = Len(store["auth"]) + 1
             /\ last'.request = [route |-> "POST /auth/signup",
                                 body |-> req[r].body]
             /\ Cardinality(CredentialsOf(store'["auth"],
                                          req[r].body.username)) = 1 ]_vars

\* with the index built, a signup was answered 500 for the rejected insert
\* and one credential of its username is stored
C21_Witness ==
    /\ authIndex = "built"
    /\ last.request.route = "POST /auth/signup"
    /\ last.status = 500
    /\ last.json = [error |-> "E11000 duplicate key error"]
    /\ Cardinality(CredentialsOf(store["auth"],
                                 last.request.body.username)) = 1

====
